---------------------------- MODULE Spec2Model ----------------------------
(***************************************************************************)
(* Model of utils/datastructures.py of the CartPole Q-learning agent:      *)
(*   Bucketer         one real value  -> one bucket index                  *)
(*   MultiBucketer    a vector        -> a vector of bucket indices        *)
(*   ObservationDict  lazily built nested dict whose leaves are the        *)
(*                    per-action value vectors created by numpy.full       *)
(*                                                                         *)
(* Python floats are binary floating-point numbers: every /, * and + of    *)
(* line 48 and line 51 rounds its exact result to the nearest             *)
(* representable number, ties to even.  The model keeps that rounding but  *)
(* with a significand of Precision bits instead of 53.  A float is held as *)
(* the integer  x * Scale ; the smallest spacing of the format is 1/Scale. *)
(***************************************************************************)
EXTENDS Integers, Sequences, FiniteSets, TLC

\* ----------------------------------------------------------------- bounds
Precision  == 13      \* bits of significand of the modelled float format
MaxBuckets == 6       \* largest n_buckets drawn
MaxDim     == 2       \* largest number of coordinates of a MultiBucketer
MaxObsLen  == 2       \* longest observation / value vector passed in
MaxNodes   == 3       \* largest number of objects in the table's heap
MaxEpisodes == 3      \* largest --n-episodes drawn
MaxSteps   == 2       \* timesteps after which an episode is cut off (200 in main.py)

\* ------------------------------------------------------- float arithmetic
RECURSIVE Pow2(_)
Pow2(k) == IF k = 0 THEN 1 ELSE 2 * Pow2(k - 1)

Scale == Pow2(Precision + 3)

abs(x) == IF x < 0 THEN -x ELSE x

\* num/den rounded to an integer, ties to the even neighbour (num >= 0, den > 0)
RoundHalfEven(num, den) ==
    LET q == num \div den
        r == num % den
    IN  IF 2 * r > den \/ (2 * r = den /\ q % 2 = 1) THEN q + 1 ELSE q

\* spacing of the floats around num/den: the largest power of two u with
\* num/den >= 2^(Precision-1) * u, and 1 (the subnormal spacing) below that
MaxSignificand == Pow2(Precision)
RECURSIVE Ulp(_, _, _)
Ulp(num, den, u) ==
    IF num >= den * u * MaxSignificand THEN Ulp(num, den, 2 * u) ELSE u

\* the float nearest to the exact quotient num/den  (den > 0)
Float(num, den) ==
    LET a == abs(num)
        u == Ulp(a, den, 1)
        m == RoundHalfEven(a, den * u) * u
    IN  IF num < 0 THEN -m ELSE m

FloatDiv(x, n) == Float(x, n)          \* x / n      n a Python int
FloatAdd(x, y) == Float(x + y, 1)      \* x + y
FloatMul(k, x) == Float(k * x, 1)      \* k * x      k a Python int

IsFloat(x) == Float(x, 1) = x

\* the neighbouring floats below and above a float
PrevFloat(x) ==
    IF x > 0 THEN x - Ulp(x - 1, 1, 1) ELSE x - Ulp(abs(x), 1, 1)
NextFloat(x) == -PrevFloat(-x)

\* the float a decimal literal such as 1.999 denotes: 1999/1000 rounded
Literal(num, den) == Float(num * Scale, den)


\* -------------------------------------------------------------- variables
VARIABLES
    op,           \* the operation performed last ("init": none yet)
    bucketer,     \* a Bucketer: [lower_bound, upper_bound, n_buckets]
    value,        \* the argument of Bucketer.get_bucketed
    bucket,       \* what Bucketer.get_bucketed returned
    lowers,       \* the lower_bounds the MultiBucketer was built from
    uppers,       \* the upper_bounds the MultiBucketer was built from
    multi,        \* a MultiBucketer: [n, n_buckets, bucketers]
    values,       \* the argument of MultiBucketer.get_bucketed
    buckets,      \* what MultiBucketer.get_bucketed returned
    raised,       \* the exception the last operation ended with, or NoError
    od,           \* an ObservationDict: [init_value, n_actions, has_bucketer, bucketer]
    heap,         \* the objects reachable from od's table: dicts and ndarrays
    calls,        \* the number of calls v = od.get(...) so far, modulo 2
    observation,  \* the argument of the last call v = od.get(observation)
    key,          \* that observation after line 111 (bucketed, if a bucketer is set)
    ret,          \* what that call returned: the caller's v
    writes,       \* per action index a the caller wrote v[a] = x since: x
    \* main.py
    pc,             \* where the training script is
    n_episodes,     \* args.n_episodes
    checkpoint_rate,\* args.checkpoint_rate
    i_episode,      \* the loop variable of line 35
    timestep,       \* the loop variable t of line 52
    checkpoints,    \* the numbers of the checkpoint files saved (line 46)
    logger_writes,  \* how often logger.write was called (lines 47, 78)
    logger_clears,  \* how often logger.clear was called (line 48)
    saved,          \* whether the final agent.save() of line 79 was made
    \* callers of one ObservationDict that run get at the same time
    threads,        \* per caller: where it is in get, and its local variables
    sync            \* whether the callers hold a lock around each get call

libvars == <<op, bucketer, value, bucket, lowers, uppers, multi,
             values, buckets, raised,
             od, heap, calls, observation, key, ret, writes>>

mainvars == <<pc, n_episodes, checkpoint_rate, i_episode, timestep,
              checkpoints, logger_writes, logger_clears, saved>>

racevars == <<threads, sync>>

vars == <<libvars, mainvars, racevars>>

\* no concurrent callers
RaceIdle == threads = <<>> /\ sync = FALSE

\* the training script is not running
MainIdle ==
    /\ pc = "none"
    /\ n_episodes = 0
    /\ checkpoint_rate = 0
    /\ i_episode = 0
    /\ timestep = 0
    /\ checkpoints = <<>>
    /\ logger_writes = 0
    /\ logger_clears = 0
    /\ saved = FALSE

NoError == "none"

ToFloat(k) == k * Scale

\* ---------------------------------------------------------------- Bucketer
\* Bucketer.__init__ (lines 36-38)
Bucketer(lower, upper, n) ==
    [lower_bound |-> lower, upper_bound |-> upper, n_buckets |-> n]

\* line 48
step_size(self) ==
    FloatAdd(FloatDiv(abs(self.lower_bound), self.n_buckets),
             FloatDiv(abs(self.upper_bound), self.n_buckets))

\* line 51: self.lower_bound + b * step_size
lower_edge(self, b) == FloatAdd(self.lower_bound, FloatMul(b, step_size(self)))

\* line 51
in_bucket(self, v, b) == lower_edge(self, b) <= v /\ v < lower_edge(self, b + 1)

\* mutant of fallback: the sentinel whatever the loop variable equals
fallback_sentinel(self) == -1

\* lines 54-57: after the loop `bucket` is still the last index, n_buckets - 1
fallback(self) ==
    IF ToFloat(self.n_buckets - 1) = self.upper_bound THEN self.n_buckets ELSE -1

\* lines 50-57, from loop index b on
RECURSIVE bucket_loop(_, _, _)
bucket_loop(self, v, b) ==
    IF b >= self.n_buckets THEN fallback(self)
    ELSE IF in_bucket(self, v, b) THEN b
    ELSE bucket_loop(self, v, b + 1)

\* Bucketer.get_bucketed
get_bucketed(self, v) == bucket_loop(self, v, 0)

\* the bounds a Bucketer is built with (whole numbers, as floats)
LowerBounds == {-3, -2, 0, 1}
UpperBounds == {-2, 1, 2, 4, 10}

Bucketers ==
    {Bucketer(ToFloat(lo), ToFloat(hi), n) :
        lo \in LowerBounds, hi \in UpperBounds, n \in 1..MaxBuckets}

\* |lower_bound| + |upper_bound|, the width the docstring divides (line 29)
Width(self) == abs(self.lower_bound) + abs(self.upper_bound)

\* the float nearest to the real number lower_bound + b * Width / n_buckets
NearEdge(self, b) ==
    Float(self.n_buckets * self.lower_bound + b * Width(self), self.n_buckets)

\* the values get_bucketed is called with: the halves around the input
\* space, every bucket edge (as computed and as documented) with the floats
\* next to it, the floats next to the bounds, and the literals 1.999, 9.999
Values(self) ==
    {k * (Scale \div 2) : k \in -8..22}
    \cup UNION {{lower_edge(self, b), PrevFloat(lower_edge(self, b)),
                 NextFloat(lower_edge(self, b)),
                 NearEdge(self, b), PrevFloat(NearEdge(self, b)),
                 NextFloat(NearEdge(self, b))}
                : b \in 0..self.n_buckets}
    \cup {PrevFloat(self.upper_bound), NextFloat(self.lower_bound)}
    \cup {Literal(1999, 1000), Literal(9999, 1000)}

\* ----------------------------------------------------------- MultiBucketer
\* the shorter of two lengths: zip stops at the shorter sequence
Min(a, b) == IF a < b THEN a ELSE b

\* MultiBucketer.__init__ (lines 69-73); the assert of line 69 holds of
\* every pair of bound lists drawn below
MultiBucketer(lower_bounds, upper_bounds, n_buckets) ==
    [n         |-> Len(lower_bounds),
     n_buckets |-> n_buckets,
     bucketers |-> [i \in 1..Min(Len(lower_bounds), Len(upper_bounds)) |->
                       Bucketer(lower_bounds[i], upper_bounds[i], n_buckets)]]

\* mutant of multi_get_bucketed: every value goes through the first bucketer
multi_get_bucketed_first(self, vs) ==
    [i \in 1..Min(Len(self.bucketers), Len(vs)) |->
        get_bucketed(self.bucketers[1], vs[i])]

\* MultiBucketer.get_bucketed (line 76): zip pairs bucketer i with value i
\* and stops at the end of the shorter of the two sequences
multi_get_bucketed(self, vs) ==
    [i \in 1..Min(Len(self.bucketers), Len(vs)) |->
        get_bucketed(self.bucketers[i], vs[i])]

\* sequences over S of length lo..hi
SeqsOf(S, lo, hi) == UNION {[1..k -> S] : k \in lo..hi}

\* the (lower, upper) pairs a MultiBucketer coordinate is built with
CoordBounds == {<<0, 10>>, <<-5, 5>>}
MultiBuckets == {3, 5}


\* the coordinates of the vectors passed to a MultiBucketer
CoordValues == {ToFloat(-6), ToFloat(0), ToFloat(2), PrevFloat(ToFloat(5)), ToFloat(7)}

\* --------------------------------------------------------- ObservationDict
\* objects of the heap
Dict(items)   == [kind |-> "dict", items |-> items, data |-> <<>>]
Ndarray(data) == [kind |-> "ndarray", items |-> <<>>, data |-> data]

\* what a name can be bound to: an object of the heap (by identity), or a
\* numpy scalar, which indexing an ndarray creates anew each time
Object(id)  == [kind |-> "object", id |-> id, val |-> 0]
Scalar(val) == [kind |-> "scalar", id |-> 0, val |-> val]
NoValue     == [kind |-> "none", id |-> 0, val |-> 0]

\* self.table (line 94): the root dict is the first object of the heap
table == 1

\* mutant of full: a vector one entry short
full_short(n, fill_value) == [j \in 1..(n - 1) |-> fill_value]

\* numpy.full(n_actions, init_value) (line 117)
full(n, fill_value) == [j \in 1..n |-> fill_value]

\* mutant of new_cell: position i compared with len(observation) instead of
\* len(observation) - 1, so that no position is the last one
new_cell_never_last(self, obs, i) ==
    IF i # Len(obs) + 1 THEN Dict(<<>>)
    ELSE Ndarray(full(self.n_actions, self.init_value))

\* line 117: the object stored for an absent key at position i of obs
new_cell(self, obs, i) ==
    IF i # Len(obs) THEN Dict(<<>>) ELSE Ndarray(full(self.n_actions, self.init_value))

\* mutant of has_key: the cell is stored without being looked up first
has_key_never(h, id, k) == FALSE

\* line 115 on a dict: whether cell[k] raises KeyError
has_key(h, id, k) == k \in DOMAIN h[id].items

\* line 115 on an ndarray of length n: whether k is a valid index
valid_index(n, k) == -n <= k /\ k < n
\* the position (from 1) that index k reads; negative k counts from the end
position(n, k) == IF k >= 0 THEN k + 1 ELSE n + k + 1

\* mutant of walk: line 117 replaces the mapping's entries by the new one
\* instead of adding to them
RECURSIVE walk_clobber(_, _, _, _, _)
walk_clobber(self, h, c, obs, i) ==
    IF i > Len(obs) THEN [heap |-> h, cell |-> c, raised |-> NoError]
    ELSE IF c.kind = "object" /\ h[c.id].kind = "dict" THEN
        IF has_key(h, c.id, obs[i])
        THEN walk_clobber(self, h, Object(h[c.id].items[obs[i]]), obs, i + 1)
        ELSE LET fresh == Len(h) + 1
                 h2 == Append([h EXCEPT ![c.id].items = (obs[i] :> fresh)],
                              new_cell(self, obs, i))
             IN  walk_clobber(self, h2, Object(fresh), obs, i + 1)
    ELSE IF c.kind = "object" /\ valid_index(Len(h[c.id].data), obs[i])
        THEN walk_clobber(self, h,
                  Scalar(h[c.id].data[position(Len(h[c.id].data), obs[i])]),
                  obs, i + 1)
    ELSE [heap |-> h, cell |-> NoValue, raised |-> "IndexError"]

\* lines 113-120, from position i of obs on, with `cell` bound to c:
\* the heap, the returned value and the exception the call ends with
RECURSIVE walk(_, _, _, _, _)
walk(self, h, c, obs, i) ==
    IF i > Len(obs) THEN [heap |-> h, cell |-> c, raised |-> NoError]
    ELSE IF c.kind = "object" /\ h[c.id].kind = "dict" THEN
        IF has_key(h, c.id, obs[i])
        THEN walk(self, h, Object(h[c.id].items[obs[i]]), obs, i + 1)
        ELSE LET fresh == Len(h) + 1
                 h2 == Append([h EXCEPT ![c.id].items = (obs[i] :> fresh) @@ @],
                              new_cell(self, obs, i))
             IN  walk(self, h2, Object(fresh), obs, i + 1)
    ELSE IF c.kind = "object" /\ valid_index(Len(h[c.id].data), obs[i])
        THEN walk(self, h,
                  Scalar(h[c.id].data[position(Len(h[c.id].data), obs[i])]),
                  obs, i + 1)
    \* an index out of range, or indexing a numpy scalar: IndexError, which
    \* get does not catch
    ELSE [heap |-> h, cell |-> NoValue, raised |-> "IndexError"]

\* what the table is built with
InitValues   == {0}
\* n_actions: CartPole has two actions
ActionCounts == {2}
WriteValues  == {5}
TableBucketers ==
    {MultiBucketer(<<ToFloat(0)>>, <<ToFloat(10)>>, 2),
     MultiBucketer(<<ToFloat(0), ToFloat(0)>>, <<ToFloat(10), ToFloat(10)>>, 2)}
\* raw coordinates: buckets -1, 0 and 0 of Bucketer(0, 10, 2)
RawValues == {ToFloat(-6), ToFloat(2), ToFloat(3)}
\* coordinates used as keys directly when no bucketer is set
KeyValues == {0, 2}

\* self.bucketer(observation) (line 111) for every bucketer and observation
\* drawn: the call is a pure function of its argument, tabulated once here
\* (@@ makes TLC enumerate the function instead of re-evaluating its body)
Bucketing ==
    [mb \in TableBucketers |->
        [obs \in SeqsOf(RawValues, 0, MaxObsLen) |-> multi_get_bucketed(mb, obs)]
            @@ <<>>] @@ <<>>

\* mutant of bucketed: an empty observation is keyed as the one coordinate 0
bucketed_padded(self, obs) ==
    IF obs = <<>> THEN <<0>>
    ELSE IF self.has_bucketer THEN Bucketing[self.bucketer][obs] ELSE obs

\* lines 110-111
bucketed(self, obs) ==
    IF self.has_bucketer THEN Bucketing[self.bucketer][obs] ELSE obs

ObservationDicts ==
    [init_value : InitValues, n_actions : ActionCounts,
     has_bucketer : {FALSE}, bucketer : {MultiBucketer(<<>>, <<>>, 1)}]
    \cup [init_value : InitValues, n_actions : ActionCounts,
          has_bucketer : {TRUE}, bucketer : TableBucketers]

Observations(self) ==
    SeqsOf(IF self.has_bucketer THEN RawValues ELSE KeyValues, 0, MaxObsLen)

\* ObservationDict.__init__ (lines 94-97)
Init ==
    /\ MainIdle
    /\ RaceIdle
    /\ op = "init"
    /\ od \in ObservationDicts
    /\ heap = <<Dict(<<>>)>>
    /\ raised = NoError
    /\ observation = <<>>
    /\ key = <<>>
    /\ calls = 0
    /\ ret = NoValue
    /\ writes = <<>>
    /\ bucketer = Bucketer(0, 0, 1)
    /\ value = 0
    /\ bucket = 0
    /\ lowers = <<>>
    /\ uppers = <<>>
    /\ multi = MultiBucketer(<<>>, <<>>, 1)
    /\ values = <<>>
    /\ buckets = <<>>

\* v = od.get(obs), or v = od[obs] (line 123)
Get(obs) ==
    LET k == bucketed(od, obs)
        r == walk(od, heap, Object(table), k, 1)
    IN
    /\ Len(r.heap) <= MaxNodes
    /\ op' = "get"
    /\ calls' = (calls + 1) % 2
    /\ observation' = obs
    /\ key' = k
    /\ heap' = r.heap
    /\ ret' = r.cell
    /\ raised' = r.raised
    /\ writes' = <<>>
    /\ UNCHANGED <<od, bucketer, value, bucket, lowers, uppers, multi,
                 values, buckets>>
    /\ UNCHANGED <<mainvars, racevars>>

\* od.get(obs) with the result dropped: a call between two calls the caller
\* compares
GetDropped(obs) ==
    LET r == walk(od, heap, Object(table), bucketed(od, obs), 1) IN
    /\ Len(r.heap) <= MaxNodes
    /\ op' = "get"
    /\ heap' = r.heap
    /\ UNCHANGED <<calls, observation, key, ret, raised, writes>>
    /\ UNCHANGED <<od, bucketer, value, bucket, lowers, uppers, multi,
                 values, buckets>>
    /\ UNCHANGED <<mainvars, racevars>>

\* v[a] = x on the leaf vector v
Write(a, x) ==
    /\ ret.kind = "object"
    /\ heap[ret.id].kind = "ndarray"
    /\ op' = "write"
    /\ heap' = [heap EXCEPT ![ret.id].data[a + 1] = x]
    /\ writes' = (a :> x) @@ writes
    /\ UNCHANGED <<od, calls, observation, key, ret, raised>>
    /\ UNCHANGED <<bucketer, value, bucket, lowers, uppers, multi,
                 values, buckets>>
    /\ UNCHANGED <<mainvars, racevars>>

Next ==
    \/ \E obs \in Observations(od) : Get(obs)
    \/ \E obs \in Observations(od) : GetDropped(obs)
    \/ \E a \in 0..(od.n_actions - 1), x \in WriteValues : Write(a, x)

Spec == Init /\ [][Next]_vars

\* ----------------------------------------------------- the pure functions
\* a caller builds a Bucketer and picks a value
InitBucketer ==
    /\ MainIdle
    /\ RaceIdle
    /\ op = "init"
    /\ bucketer \in Bucketers
    /\ value \in Values(bucketer)
    /\ bucket = 0
    /\ lowers = <<>>
    /\ uppers = <<>>
    /\ multi = MultiBucketer(<<>>, <<>>, 1)
    /\ values = <<>>
    /\ buckets = <<>>
    /\ raised = NoError
    /\ od = [init_value |-> 0, n_actions |-> 1, has_bucketer |-> FALSE,
             bucketer |-> MultiBucketer(<<>>, <<>>, 1)]
    /\ heap = <<>>
    /\ observation = <<>>
    /\ key = <<>>
    /\ calls = 0
    /\ ret = [kind |-> "none", id |-> 0, val |-> 0]
    /\ writes = <<>>

\* the caller calls get_bucketed(value), or bucketer(value) (lines 59-60)
BucketerCall ==
    /\ op = "init"
    /\ op' = "Bucketer.get_bucketed"
    /\ bucket' = get_bucketed(bucketer, value)
    /\ raised' = NoError
    /\ UNCHANGED <<bucketer, value, lowers, uppers, multi, values, buckets>>
    /\ UNCHANGED <<od, heap, calls, observation, key, ret, writes>>
    /\ UNCHANGED <<mainvars, racevars>>

NextBucketer == BucketerCall

SpecBucketer == InitBucketer /\ [][NextBucketer]_vars

\* a caller builds a MultiBucketer and picks a vector of any length
InitMulti ==
    /\ MainIdle
    /\ RaceIdle
    /\ op = "init"
    /\ \E bs \in SeqsOf(CoordBounds, 1, MaxDim), n \in MultiBuckets :
          /\ lowers = [i \in 1..Len(bs) |-> ToFloat(bs[i][1])]
          /\ uppers = [i \in 1..Len(bs) |-> ToFloat(bs[i][2])]
          /\ multi = MultiBucketer([i \in 1..Len(bs) |-> ToFloat(bs[i][1])],
                                   [i \in 1..Len(bs) |-> ToFloat(bs[i][2])], n)
    /\ values \in SeqsOf(CoordValues, 0, MaxObsLen)
    /\ buckets = <<>>
    /\ bucketer = Bucketer(0, 0, 1)
    /\ value = 0
    /\ bucket = 0
    /\ raised = NoError
    /\ od = [init_value |-> 0, n_actions |-> 1, has_bucketer |-> FALSE,
             bucketer |-> MultiBucketer(<<>>, <<>>, 1)]
    /\ heap = <<>>
    /\ observation = <<>>
    /\ key = <<>>
    /\ calls = 0
    /\ ret = [kind |-> "none", id |-> 0, val |-> 0]
    /\ writes = <<>>

\* the caller calls get_bucketed(values), or multi(values) (lines 78-79)
MultiCall ==
    /\ op = "init"
    /\ op' = "MultiBucketer.get_bucketed"
    /\ buckets' = multi_get_bucketed(multi, values)
    /\ raised' = NoError
    /\ UNCHANGED <<bucketer, value, bucket, lowers, uppers, multi, values>>
    /\ UNCHANGED <<od, heap, calls, observation, key, ret, writes>>
    /\ UNCHANGED <<mainvars, racevars>>

NextMulti == MultiCall

SpecMulti == InitMulti /\ [][NextMulti]_vars

\* ------------------------------------------------------------------ claims
Called == op = "Bucketer.get_bucketed"
WellFormed(self) == self.lower_bound < self.upper_bound /\ self.n_buckets > 0
InSpace(self, v) == self.lower_bound <= v /\ v < self.upper_bound

\* C5: for a Bucketer with lower_bound < upper_bound and n_buckets > 0, every
\* value with lower_bound <= value < upper_bound gets a bucket b with
\* 0 <= b < n_buckets, never -1 and never n_buckets.
C5_InRangeBucket ==
    (Called /\ WellFormed(bucketer) /\ InSpace(bucketer, value))
        => (0 <= bucket /\ bucket < bucketer.n_buckets)

\* C6: for a Bucketer with lower_bound < upper_bound and n_buckets > 0 and
\* two values v1 <= v2 of [lower_bound, upper_bound), the bucket of v1 is at
\* most the bucket of v2.
C6_Monotone ==
    (Called /\ WellFormed(bucketer) /\ InSpace(bucketer, value))
        => \A v1 \in Values(bucketer) :
              (InSpace(bucketer, v1) /\ v1 <= value)
                  => get_bucketed(bucketer, v1) <= bucket

\* v is the real number lower_bound + b * (|lower_bound|+|upper_bound|)/n_buckets
AtEdge(self, v, b) == self.n_buckets * (v - self.lower_bound) = b * Width(self)
\* v lies strictly between that number and the one for b + 1
InsideBucket(self, v, b) ==
    /\ b * Width(self) < self.n_buckets * (v - self.lower_bound)
    /\ self.n_buckets * (v - self.lower_bound) < (b + 1) * Width(self)

\* C7: buckets are half-open and lower-inclusive: for b in 0..n_buckets-1 a
\* value equal to lower_bound + b*step_size, step_size being
\* (|lower_bound|+|upper_bound|)/n_buckets, or strictly between that and
\* lower_bound + (b+1)*step_size, gets bucket b; and Bucketer(0, 10, 5) sends
\* 0 to 0, 1.999 to 0, 2.0 to 1 and 9.999 to 4.
C7_HalfOpenBuckets ==
    (Called /\ WellFormed(bucketer))
        => /\ \A b \in 0..(bucketer.n_buckets - 1) :
                 (AtEdge(bucketer, value, b) \/ InsideBucket(bucketer, value, b))
                     => bucket = b
           /\ bucketer = Bucketer(ToFloat(0), ToFloat(10), 5)
                 => /\ value = ToFloat(0) => bucket = 0
                    /\ value = Literal(1999, 1000) => bucket = 0
                    /\ value = ToFloat(2) => bucket = 1
                    /\ value = Literal(9999, 1000) => bucket = 4

\* ---- MultiBucketer
MultiCalled == op = "MultiBucketer.get_bucketed"

\* C8: for an input vector of length exactly n the result has length n and
\* its i-th element is what a standalone Bucketer(lower_bounds[i],
\* upper_bounds[i], n_buckets) returns for values[i].
C8_Coordinatewise ==
    (MultiCalled /\ Len(values) = multi.n)
        => /\ Len(buckets) = multi.n
           /\ \A i \in 1..multi.n :
                 buckets[i] =
                     get_bucketed(Bucketer(lowers[i], uppers[i], multi.n_buckets),
                                  values[i])

\* the example of the specification: bounds [(0,10), (-5,5)], 5 buckets,
\* get_bucketed([2.0, 0.0]) = [1, 2]
C8_Witness ==
    /\ MultiCalled
    /\ lowers = <<ToFloat(0), ToFloat(-5)>>
    /\ uppers = <<ToFloat(10), ToFloat(5)>>
    /\ multi.n_buckets = 5
    /\ values = <<ToFloat(2), ToFloat(0)>>
    /\ buckets = <<1, 2>>

\* C9: get_bucketed fails with an error whenever the length of the input
\* vector differs from n; it never returns a result computed from a
\* truncated or padded input.
C9_LengthMismatchFails ==
    (MultiCalled /\ Len(values) # multi.n) => raised # NoError

\* ---- ObservationDict
\* this step is a call v = od.get(observation')
IsCall == calls' # calls
\* a call v = od.get(observation) has been made before
HadCall == ret.kind # "none" \/ raised # NoError
\* c refers to a leaf vector of heap h
IsLeaf(h, c) == c.kind = "object" /\ h[c.id].kind = "ndarray"

\* C1: get called twice with the same observation, or with two observations
\* that are bucketed to the same key, with any number of other get calls in
\* between, returns the very same leaf vector object both times, and the
\* second call adds no node to the table.  (Empty keys are left out.)
C1_SameLeafTwice ==
    [][(IsCall /\ HadCall /\ key' = key /\ key # <<>>)
          => /\ IsLeaf(heap, ret)
             /\ ret' = ret
             /\ Len(heap') = Len(heap)]_vars

\* the table of h holds exactly one path, spelled k, of Len(k) nested levels,
\* ending in a vector of n_actions entries all equal to init_value
OnePath(self, h, k) ==
    /\ Len(h) = Len(k) + 1
    /\ \E path \in [0..Len(k) -> 1..Len(h)] :
          /\ path[0] = table
          /\ \A i, j \in 0..Len(k) : path[i] = path[j] => i = j
          /\ \A i \in 1..Len(k) :
                /\ h[path[i - 1]].kind = "dict"
                /\ DOMAIN h[path[i - 1]].items = {k[i]}
                /\ h[path[i - 1]].items[k[i]] = path[i]
          /\ h[path[Len(k)]].kind = "ndarray"
          /\ Len(h[path[Len(k)]].data) = self.n_actions
          /\ \A a \in 1..self.n_actions : h[path[Len(k)]].data[a] = self.init_value

TableEmpty == Len(heap) = 1 /\ heap[table].kind = "dict" /\ DOMAIN heap[table].items = {}

\* C2: a freshly constructed ObservationDict has an empty table, and after
\* exactly one get whose key has k >= 1 coordinates the table holds exactly
\* one path of k nested levels, ending in a vector of n_actions entries all
\* equal to init_value.
C2_LazyCreation ==
    [][op = "init"
          => /\ TableEmpty
             /\ (IsCall /\ Len(key') >= 1) => OnePath(od, heap', key')]_vars

\* one get with a key of two coordinates has built a dict and a leaf
C2_Witness ==
    /\ op = "get"
    /\ calls = 1
    /\ Len(key) = 2
    /\ OnePath(od, heap, key)
    /\ IsLeaf(heap, ret)

\* C3: after v = get(obs) and v[a] = x, and any further get calls on the same
\* or other keys, get(obs) returns a vector whose element a is x.
C3_WritePersists ==
    [][(IsCall /\ key' = key)
          => \A a \in DOMAIN writes :
                /\ IsLeaf(heap', ret')
                /\ heap'[ret'.id].data[a + 1] = writes[a]]_vars

\* get has returned a leaf that holds a written value and has not been
\* written through since this call: the write was made through the reference
\* of an earlier call, and another key has been added in between
C3_Witness ==
    /\ op = "get"
    /\ writes = <<>>
    /\ IsLeaf(heap, ret)
    /\ \E a \in 1..od.n_actions : heap[ret.id].data[a] \in WriteValues
    /\ \E id \in 1..Len(heap) : id # ret.id /\ heap[id].kind = "ndarray"

\* C4: for two keys obs1 # obs2 of the same length, get(obs1) and get(obs2)
\* return two different leaf vector objects, and a write to one action value
\* of one leaf leaves every entry of the other unchanged.  (Empty keys are
\* left out.)
C4_DistinctLeaves ==
    [][/\ (IsCall /\ HadCall /\ Len(key') = Len(key) /\ key' # key /\ key # <<>>)
          => /\ IsLeaf(heap, ret)
             /\ IsLeaf(heap', ret')
             /\ ret'.id # ret.id
       /\ (op' = "write")
          => \A id \in 1..Len(heap) : id # ret.id => heap'[id] = heap[id]]_vars

\* C10: with a bucketer of dimensionality n, get(observation) with
\* len(observation) # n fails at once: it returns no cell and leaves the
\* table as it was.  (Empty observations are left out.)
C10_WrongLengthFails ==
    [][(IsCall /\ od.has_bucketer /\ observation' # <<>>
           /\ Len(observation') # od.bucketer.n)
          => (raised' # NoError /\ heap' = heap)]_vars

\* C11: on an ObservationDict without a bucketer, after any get calls with
\* non-empty keys of any lengths, every get call with a non-empty key returns
\* a vector of n_actions entries: never a nested mapping, a scalar or an
\* error.
C11_AlwaysVector ==
    [][(IsCall /\ ~od.has_bucketer /\ key' # <<>>)
          => /\ raised' = NoError
             /\ IsLeaf(heap', ret')
             /\ Len(heap'[ret'.id].data) = od.n_actions]_vars

\* below node id, which lies at depth d, every node at a depth below L is a
\* mapping and every node at depth L is a vector of n_actions entries
RECURSIVE ShapedFrom(_, _, _, _, _)
ShapedFrom(self, h, id, d, L) ==
    IF d = L
    THEN h[id].kind = "ndarray" /\ Len(h[id].data) = self.n_actions
    ELSE /\ h[id].kind = "dict"
         /\ \A k \in DOMAIN h[id].items :
               ShapedFrom(self, h, h[id].items[k], d + 1, L)

\* the table of h is nested exactly L levels deep.  The tables of this shape
\* are the tables that get calls with keys of length L build, so the
\* condition "all keys so far had length L" is stated on the table itself.
Shaped(self, h, L) == ShapedFrom(self, h, table, 0, L)

\* C12: after any get calls whose keys all have one length L >= 1, and any
\* writes to returned leaves, every node of the table at depth < L is a
\* mapping, every node at depth L is a vector of n_actions entries and there
\* is no node at depth > L.  Stated as the step that keeps it: a get with a
\* key of length L, and a write, take a table of that shape to a table of
\* that shape (the empty table has the shape for every L).
C12_ShapeKept ==
    [][\A L \in 1..MaxObsLen :
          (Shaped(od, heap, L) /\ ((IsCall /\ Len(key') = L) \/ op' = "write"))
              => Shaped(od, heap', L)]_vars

\* two keys of length 1 have been looked up and a leaf written: two leaves
\* at depth 1
C12_Witness ==
    /\ Shaped(od, heap, 1)
    /\ Len(heap) = 3
    /\ Len(key) = 1
    /\ \E id \in 1..Len(heap) :
          heap[id].kind = "ndarray" /\ \E a \in 1..od.n_actions : heap[id].data[a] \in WriteValues

\* ---- Bucketer, continued
\* C13: for a Bucketer with lower_bound < upper_bound and n_buckets > 0,
\* every value of the closed interval lower_bound <= value <= upper_bound
\* gets a bucket b with 0 <= b <= n_buckets; value = upper_bound never
\* yields -1.
C13_ClosedInterval ==
    (Called /\ WellFormed(bucketer)
        /\ bucketer.lower_bound <= value /\ value <= bucketer.upper_bound)
        => (0 <= bucket /\ bucket <= bucketer.n_buckets)

\* no bucket of 0..n_buckets-1 satisfies the comparison of line 51
NoBucket(self, v) == \A b \in 0..(self.n_buckets - 1) : ~in_bucket(self, v, b)

C16_ExactSpace ==
    (Called /\ WellFormed(bucketer) /\ ~InSpace(bucketer, value))
        => ~(0 <= bucket /\ bucket < bucketer.n_buckets)

\* ---- ObservationDict, continued
\* the node that following k from position i on leads to from node id, or 0
\* when the path is not in the table
RECURSIVE Lookup(_, _, _, _)
Lookup(h, id, k, i) ==
    IF i > Len(k) THEN id
    ELSE IF h[id].kind = "dict" /\ k[i] \in DOMAIN h[id].items
         THEN Lookup(h, h[id].items[k[i]], k, i + 1)
         ELSE 0

Present(h, k) == Lookup(h, table, k, 1) # 0

\* the number of leading coordinates of k whose path is in the table
PrefixDepth(h, k) ==
    CHOOSE d \in 0..Len(k) :
        /\ Present(h, SubSeq(k, 1, d))
        /\ \A e \in (d + 1)..Len(k) : ~Present(h, SubSeq(k, 1, e))

\* every node of h is in h2 with the entries it had: a vector with the same
\* values, a mapping with at least the same keys leading to the same objects
Kept(h, h2) ==
    /\ Len(h2) >= Len(h)
    /\ \A id \in 1..Len(h) :
          /\ h2[id].kind = h[id].kind
          /\ h2[id].data = h[id].data
          /\ \A k \in DOMAIN h[id].items :
                k \in DOMAIN h2[id].items /\ h2[id].items[k] = h[id].items[k]

\* h2 is h with the missing suffix of the path of k added and nothing else:
\* the last node of the prefix that was there gains the one key, every other
\* old node is as it was, and the new nodes are the rest of the path
OnlySuffixAdded(h, h2, k) ==
    LET d    == PrefixDepth(h, k)
        last == Lookup(h, table, SubSeq(k, 1, d), 1)
    IN  /\ Len(h2) = Len(h) + (Len(k) - d)
        /\ \A id \in 1..Len(h) : id # last => h2[id] = h[id]
        /\ DOMAIN h2[last].items = DOMAIN h[last].items \cup {k[d + 1]}
        /\ \A e \in (d + 1)..Len(k) :
              Lookup(h2, table, SubSeq(k, 1, e), 1) = Len(h) + (e - d)

\* C17: across get calls with keys of one fixed length, every key path and
\* leaf present before a call is present afterwards with the same leaf object
\* and the same entries; a get on a present key leaves the whole table
\* unchanged; a get on an absent key changes nothing outside the newly
\* created suffix of its path.  (A table built with keys of length L is a
\* table nested L levels deep.)
C17_OnlyAddsOwnPath ==
    [][\A L \in 1..MaxObsLen :
          (IsCall /\ Len(key') = L /\ Shaped(od, heap, L))
              => /\ Kept(heap, heap')
                 /\ Present(heap, key') => heap' = heap
                 /\ ~Present(heap, key') => OnlySuffixAdded(heap, heap', key')]_vars

\* a get on an absent key has added a leaf to a table that held another key
C17_Witness ==
    /\ op = "get"
    /\ raised = NoError
    /\ Len(key) = 1
    /\ Shaped(od, heap, 1)
    /\ Len(heap) = 3
    /\ ret = Object(3)
    /\ writes = <<>>

\* C19: get with an empty observation, with or without a bucketer, inserts
\* nothing and returns the root mapping of the table itself, not a leaf
\* vector: the caller holds an alias of the whole table.
C19_EmptyKeyReturnsRoot ==
    [][(IsCall /\ observation' = <<>>)
          => /\ key' = <<>>
             /\ raised' = NoError
             /\ heap' = heap
             /\ ret' = Object(table)
             /\ heap'[ret'.id].kind = "dict"]_vars

\* a table with a bucketer that holds a key already has been asked for the
\* empty observation
C19_Witness ==
    /\ op = "get"
    /\ calls = 0
    /\ od.has_bucketer
    /\ observation = <<>>
    /\ ret = Object(table)
    /\ DOMAIN heap[table].items # {}

\* ------------------------------------------------------------------ main.py
\* Python's % and //: the remainder has the sign of the divisor (b # 0)
PyMod(a, b) == IF b > 0 THEN a % b ELSE -((-a) % (-b))
PyFloorDiv(a, b) == IF b > 0 THEN a \div b ELSE (-a) \div (-b)

\* --checkpoint-rate: the value that is documented to disable checkpoints,
\* zero, small rates and the default (lines 13-14)
CheckpointRates == {-1, 0, 1, 2, 100}

\* Bucketer, MultiBucketer and ObservationDict are not exercised
LibraryIdle ==
    /\ op = "init"
    /\ bucketer = Bucketer(0, 0, 1)
    /\ value = 0
    /\ bucket = 0
    /\ lowers = <<>>
    /\ uppers = <<>>
    /\ multi = MultiBucketer(<<>>, <<>>, 1)
    /\ values = <<>>
    /\ buckets = <<>>
    /\ raised = NoError
    /\ od = [init_value |-> 0, n_actions |-> 1, has_bucketer |-> FALSE,
             bucketer |-> MultiBucketer(<<>>, <<>>, 1)]
    /\ heap = <<>>
    /\ observation = <<>>
    /\ key = <<>>
    /\ calls = 0
    /\ ret = NoValue
    /\ writes = <<>>

\* lines 21-33: the arguments are parsed; the loop of line 35 is about to
\* take its first value
InitMain ==
    /\ LibraryIdle
    /\ pc = "for"
    /\ n_episodes \in 0..MaxEpisodes
    /\ checkpoint_rate \in CheckpointRates
    /\ i_episode = 0
    /\ timestep = 0
    /\ checkpoints = <<>>
    /\ logger_writes = 0
    /\ logger_clears = 0
    /\ saved = FALSE
    /\ RaceIdle

\* lines 35-43: range(args.n_episodes) yields i_episode
EpisodeStart ==
    /\ pc = "for"
    /\ i_episode < n_episodes
    /\ pc' = "if"
    /\ UNCHANGED <<n_episodes, checkpoint_rate, i_episode, timestep,
                   checkpoints, logger_writes, logger_clears, saved>>
    /\ UNCHANGED <<libvars, racevars>>

\* line 45
checkpoint_due == i_episode > 0 /\ PyMod(i_episode, checkpoint_rate) = 0

\* lines 45-48, the condition holds
Checkpoint ==
    /\ pc = "if"
    /\ ~(i_episode > 0 /\ checkpoint_rate = 0)
    /\ checkpoint_due
    /\ checkpoints' = Append(checkpoints, PyFloorDiv(i_episode, checkpoint_rate))
    /\ logger_writes' = logger_writes + 1
    /\ logger_clears' = logger_clears + 1
    /\ pc' = "steps"
    /\ UNCHANGED <<n_episodes, checkpoint_rate, i_episode, timestep, saved>>
    /\ UNCHANGED <<libvars, racevars>>

\* line 45, the condition does not hold
NoCheckpoint ==
    /\ pc = "if"
    /\ ~(i_episode > 0 /\ checkpoint_rate = 0)
    /\ ~checkpoint_due
    /\ pc' = "steps"
    /\ UNCHANGED <<n_episodes, checkpoint_rate, i_episode, timestep,
                   checkpoints, logger_writes, logger_clears, saved>>
    /\ UNCHANGED <<libvars, racevars>>

\* line 45 with --checkpoint-rate 0: i_episode % 0 raises ZeroDivisionError
CheckpointRaises ==
    /\ pc = "if"
    /\ i_episode > 0 /\ checkpoint_rate = 0
    /\ pc' = "raised"
    /\ raised' = "ZeroDivisionError"
    /\ UNCHANGED <<n_episodes, checkpoint_rate, i_episode, timestep,
                   checkpoints, logger_writes, logger_clears, saved>>
    /\ UNCHANGED <<op, bucketer, value, bucket, lowers, uppers, multi, values,
                   buckets, od, heap, calls, observation, key, ret, writes>>
    /\ UNCHANGED racevars

\* lines 52-75: one timestep; the episode ends when the environment reports
\* done or the range of line 52 is used up
Timestep(done) ==
    /\ pc = "steps"
    /\ IF done \/ timestep + 1 = MaxSteps
       THEN pc' = "for" /\ i_episode' = i_episode + 1 /\ timestep' = 0
       ELSE pc' = "steps" /\ i_episode' = i_episode /\ timestep' = timestep + 1
    /\ UNCHANGED <<n_episodes, checkpoint_rate, checkpoints, logger_writes,
                   logger_clears, saved>>
    /\ UNCHANGED <<libvars, racevars>>

\* lines 77-79, after the last episode
Finish ==
    /\ pc = "for"
    /\ i_episode >= n_episodes
    /\ logger_writes' = logger_writes + 1
    /\ saved' = TRUE
    /\ pc' = "done"
    /\ UNCHANGED <<n_episodes, checkpoint_rate, i_episode, timestep,
                   checkpoints, logger_clears>>
    /\ UNCHANGED <<libvars, racevars>>

NextMain ==
    \/ EpisodeStart
    \/ Checkpoint
    \/ NoCheckpoint
    \/ CheckpointRaises
    \/ \E done \in BOOLEAN : Timestep(done)
    \/ Finish

SpecMain == InitMain /\ [][NextMain]_vars

\* C14: with --checkpoint-rate -1 checkpoints are disabled: whatever the
\* number of episodes, no checkpoint of the agent is saved and the logger is
\* not written or cleared at the start of any episode; only the final write
\* and save after the last episode happen.
C14_MinusOneDisables ==
    (pc # "none" /\ checkpoint_rate = -1)
        => /\ checkpoints = <<>>
           /\ logger_clears = 0
           /\ logger_writes = (IF pc = "done" THEN 1 ELSE 0)
           /\ saved = (pc = "done")

\* ------------------------------------------- get run by two callers at once
\* get is plain Python: between the failed lookup of line 115, the store of
\* line 117 and the lookup of line 118 another thread may run.  Keys have
\* one coordinate, so `cell` is the root mapping whenever line 115 runs and
\* the cell that line 117 stores is a leaf vector.
Callers == {1, 2}
CallerKeys == {<<c>> : c \in KeyValues}

\* a caller's frame of get: pc is the line it is about to run; ret is what
\* its last call returned (0: nothing yet); missed says that this call took
\* the except branch
Frame(at, k, c, r, m) ==
    [pc |-> at, key |-> k, cell |-> c, ret |-> r, missed |-> m]

\* mutant of race_lookup: line 115 raises KeyError whatever the mapping holds
race_lookup_miss(h, c, k) == 0

\* line 115, cell[key] on the mapping c: the object found, or 0 for KeyError
race_lookup(h, c, k) == IF has_key(h, c, k) THEN h[c].items[k] ELSE 0

\* with a lock around get, a caller enters only when no other caller is inside
inside(t) == threads[t].pc \notin {"idle", "done"}
may_enter(t) == sync => \A u \in Callers \ {t} : ~inside(u)

\* everything of the library's state but the heap
tablevars == <<op, bucketer, value, bucket, lowers, uppers, multi, values,
               buckets, raised, od, calls, observation, key, ret, writes>>

\* an ObservationDict without a bucketer, shared by the callers
InitRace ==
    /\ MainIdle
    /\ op = "init"
    /\ bucketer = Bucketer(0, 0, 1)
    /\ value = 0
    /\ bucket = 0
    /\ lowers = <<>>
    /\ uppers = <<>>
    /\ multi = MultiBucketer(<<>>, <<>>, 1)
    /\ values = <<>>
    /\ buckets = <<>>
    /\ raised = NoError
    /\ od \in {o \in ObservationDicts : ~o.has_bucketer}
    /\ heap = <<Dict(<<>>)>>
    /\ observation = <<>>
    /\ key = <<>>
    /\ calls = 0
    /\ ret = NoValue
    /\ writes = <<>>
    /\ threads = [t \in Callers |-> Frame("idle", <<>>, 0, 0, FALSE)]
    /\ sync \in BOOLEAN

\* lines 108-113: caller t calls get(k); cell = self.table
RaceCall(t, k) ==
    /\ threads[t].pc \in {"idle", "done"}
    /\ may_enter(t)
    /\ threads' = [threads EXCEPT ![t] = Frame("try", k, table, 0, FALSE)]
    /\ UNCHANGED <<heap, sync, tablevars, mainvars>>

\* line 115: cell = cell[key], or KeyError
RaceTry(t) ==
    LET f     == threads[t]
        found == race_lookup(heap, f.cell, f.key[1])
    IN  /\ f.pc = "try"
        /\ threads' = [threads EXCEPT ![t] =
                          IF found # 0
                          THEN Frame("return", f.key, found, 0, FALSE)
                          ELSE Frame("except", f.key, f.cell, 0, TRUE)]
        /\ UNCHANGED <<heap, sync, tablevars, mainvars>>

\* line 117: cell[key] = full(self.n_actions, self.init_value)
RaceStore(t) ==
    LET f     == threads[t]
        fresh == Len(heap) + 1
    IN  /\ f.pc = "except"
        /\ fresh <= MaxNodes
        /\ heap' = Append([heap EXCEPT ![f.cell].items = (f.key[1] :> fresh) @@ @],
                          Ndarray(full(od.n_actions, od.init_value)))
        /\ threads' = [threads EXCEPT ![t].pc = "fetch"]
        /\ UNCHANGED <<sync, tablevars, mainvars>>

\* line 118: cell = cell[key]
RaceFetch(t) ==
    LET f == threads[t] IN
    /\ f.pc = "fetch"
    /\ threads' = [threads EXCEPT ![t] =
                      Frame("return", f.key, heap[f.cell].items[f.key[1]], 0, TRUE)]
    /\ UNCHANGED <<heap, sync, tablevars, mainvars>>

\* line 120: return cell
RaceReturn(t) ==
    LET f == threads[t] IN
    /\ f.pc = "return"
    /\ threads' = [threads EXCEPT ![t] = Frame("done", f.key, f.cell, f.cell, f.missed)]
    /\ UNCHANGED <<heap, sync, tablevars, mainvars>>

\* caller t writes v[a] = x to the leaf its call returned
RaceWrite(t, a, x) ==
    LET f == threads[t] IN
    /\ f.pc = "done"
    /\ heap[f.ret].data[a + 1] # x
    /\ heap' = [heap EXCEPT ![f.ret].data[a + 1] = x]
    /\ UNCHANGED <<threads, sync, tablevars, mainvars>>

NextRace ==
    \/ \E t \in Callers, k \in CallerKeys : RaceCall(t, k)
    \/ \E t \in Callers : RaceTry(t)
    \/ \E t \in Callers : RaceStore(t)
    \/ \E t \in Callers : RaceFetch(t)
    \/ \E t \in Callers : RaceReturn(t)
    \/ \E t \in Callers, a \in 0..(od.n_actions - 1), x \in WriteValues :
          RaceWrite(t, a, x)

SpecRace == InitRace /\ [][NextRace]_vars

\* the leaf the table holds for key k, or 0
Leaf(h, k) == race_lookup(h, table, k[1])

\* C18: get is not atomic.  Without a lock, two callers of get for the same
\* absent key can both see the key absent and each store a fresh leaf: they
\* then hold different leaves, and a write through the overwritten leaf is
\* not seen by later get calls (the state C18_Witness).  With one caller
\* inside get at a time no such state is reached: the leaf a call returned
\* stays the leaf of its key, nothing is stored for a key that has a leaf, and
\* two callers that asked for the same key hold the same leaf.
C18_SequentialKeepsLeaves ==
    sync => /\ \A t \in Callers :
                  threads[t].pc = "done"
                      => threads[t].ret = Leaf(heap, threads[t].key)
            /\ \A t, u \in Callers :
                  (threads[t].pc = "done" /\ threads[u].pc = "done"
                      /\ threads[t].key = threads[u].key)
                      => threads[t].ret = threads[u].ret
            /\ \A id \in 2..Len(heap) : \E k \in CallerKeys : Leaf(heap, k) = id

\* no lock: caller t and caller u asked for the same key and both stored a
\* leaf; t's leaf was overwritten and holds t's write, and the leaf that get
\* returns now, u's, does not show it
C18_Witness ==
    /\ ~sync
    /\ \E t, u \in Callers :
          /\ t # u
          /\ threads[t].pc = "done" /\ threads[u].pc = "done"
          /\ threads[t].key = threads[u].key
          /\ threads[t].missed /\ threads[u].missed
          /\ threads[t].ret # threads[u].ret
          /\ Leaf(heap, threads[t].key) = threads[u].ret
          /\ \E a \in 1..od.n_actions :
                /\ heap[threads[t].ret].data[a] \in WriteValues
                /\ heap[threads[u].ret].data[a] = od.init_value

=============================================================================
